---- MODULE Spec2Model ----
(***************************************************************************)
(* Model of src/scripts.ts: the pixel comparison kernel compareImages and  *)
(* the asynchronous driver compare() with its isComparing guard.           *)
(*                                                                         *)
(* Real numbers are kept exact as integer numerators over a fixed          *)
(* denominator.  pixelDiff = (dr*0.299 + dg*0.587 + db*0.114 + da*0.1) /   *)
(* (255*1.1) is the integer 299*dr + 587*dg + 114*db + 100*da over         *)
(* PixDen = 255 * 1100.  A score is a record [num, den] meaning num/den.   *)
(***************************************************************************)
EXTENDS Integers, Sequences, FiniteSets, TLC

\* ------------------------------------------------------------------ bounds
MaxDim == 2        \* largest width or height of an input buffer
MaxArea == 2       \* largest number of pixels of an input buffer
MaxTriggers == 4   \* trigger events (clicks, interval ticks, the timeout) in a run

\* --------------------------------------------------- program constants
PixDen == 280500   \* 255 * 1.1, in thousandths (scripts.ts:220)

VARIABLES
    img1Data,      \* first argument of compareImages
    img2Data,      \* second argument of compareImages
    result,        \* compareImages(img1Data, img2Data), or NoResult
    swapped,       \* compareImages(img2Data, img1Data), or NoResult
    moreData,      \* the pair (img1Data, img2Data) with one channel difference increased
    moreResult,    \* compareImages of the moreData pair, or NoResult
    isComparing,   \* let isComparing (line 366)
    inflight,      \* the compare() calls suspended at the await of line 375
    dangling,      \* captures still pending whose compare() call has ended
    display,       \* what the previews and the score elements show
    fired,         \* trigger events delivered so far
    started,       \* compare() calls that got past the guard
    failures,      \* console.error("Comparison failed:") calls (line 416)
    timeoutDone    \* the setTimeout of line 429 has fired

kvars == <<img1Data, img2Data, result, swapped, moreData, moreResult>>
uvars == <<isComparing, inflight, dangling, display, fired, started, failures, timeoutDone>>
vars == <<img1Data, img2Data, result, swapped, moreData, moreResult,
          isComparing, inflight, dangling, display, fired, started, failures, timeoutDone>>

\* ------------------------------------------------------------ image data
\* interface ImageData { data: Uint8ClampedArray; width; height }
\* data is the flat RGBA sequence; TLA+ sequences are 1-based, so byte i of
\* the code is data[i + 1].
ImageData(w, h, d) == [width |-> w, height |-> h, data |-> d]

RECURSIVE Flatten(_)
Flatten(pixels) ==
    IF pixels = <<>> THEN <<>> ELSE Head(pixels) \o Flatten(Tail(pixels))

\* Pixels the inputs are drawn from: opaque white and two near-whites.
\* Against white the near-whites differ by 1174/PixDen (under 0.005) and
\* 1794/PixDen (between 0.005 and 0.01); against each other by 2968/PixDen
\* (just over 0.01).  Transparent black enters through out-of-range reads
\* and ChannelValues.  No pair of these differs by exactly 2805/PixDen, the
\* one difference (dr = 9, db = 1) where double arithmetic and exact
\* arithmetic disagree about pixelDiff < 0.01.
Palette ==
    { <<255, 255, 255, 255>>, <<255, 253, 255, 255>>, <<249, 255, 255, 255>> }

\* Channel values a single channel is moved to when a difference is increased.
ChannelValues == {0, 128, 255}

Dims == { d \in (0..MaxDim) \X (0..MaxDim) : d[1] * d[2] <= MaxArea }

Images ==
    UNION { { ImageData(d[1], d[2], Flatten(px)) :
                px \in [1..(d[1] * d[2]) -> Palette] } : d \in Dims }

Max(a, b) == IF a >= b THEN a ELSE b
Min(a, b) == IF a <= b THEN a ELSE b
Abs(a) == IF a < 0 THEN -a ELSE a

\* ---------------------------------------------------------- compareImages
NoResult == [status |-> "none"]

\* lines 168-179 / 181-192: the pixel at (x, y), or transparent when the
\* coordinate is outside the image.
GetPixelClamped(img, x, y) ==
    IF img.width = 0 \/ img.height = 0 THEN <<0, 0, 0, 0>>
    ELSE LET i1 == (Min(y, img.height - 1) * img.width + Min(x, img.width - 1)) * 4
         IN  <<img.data[i1 + 1], img.data[i1 + 2], img.data[i1 + 3], img.data[i1 + 4]>>

GetPixel(img, x, y) ==
    IF x < img.width /\ y < img.height
    THEN LET i1 == (y * img.width + x) * 4
         IN  <<img.data[i1 + 1], img.data[i1 + 2], img.data[i1 + 3], img.data[i1 + 4]>>
    ELSE <<0, 0, 0, 0>>

\* lines 211-220: numerator of pixelDiff over PixDen.
PixelDiffSigned(p1, p2) ==
    (p1[1] - p2[1]) * 299 + (p1[2] - p2[2]) * 587
        + (p1[3] - p2[3]) * 114 + (p1[4] - p2[4]) * 100

PixelDiff(p1, p2) ==
    LET rDiff == Abs(p1[1] - p2[1])
        gDiff == Abs(p1[2] - p2[2])
        bDiff == Abs(p1[3] - p2[3])
        aDiff == Abs(p1[4] - p2[4])
    IN  rDiff * 299 + gDiff * 587 + bDiff * 114 + aDiff * 100

\* line 237: totalDiff += pixelDiff (every pixel, no threshold).
AddDiffWithFloor(totalDiff, pixelDiff) ==
    IF 1000 * pixelDiff < 5 * PixDen THEN totalDiff ELSE totalDiff + pixelDiff

AddDiff(totalDiff, pixelDiff) == totalDiff + pixelDiff

\* line 239: if (pixelDiff < 0.01) continue;
SkipsNothing(pixelDiff) == FALSE

Skips(pixelDiff) == 100 * pixelDiff < PixDen

\* hslToRgb(h, 1, 0.5) of ./utils with h = (1 - pixelDiff) * 0.7.  With full
\* saturation and half lightness q = 1 and p = 0, so each channel is the hue
\* ramp of t = h + 1/3, h, h - 1/3, rounded to 0..255.  t is counted in
\* units of 1 / (30 * PixDen).
HueUnit == 30 * PixDen

HueToRgb(t0) ==
    LET t1 == IF t0 < 0 THEN t0 + HueUnit ELSE t0
        t  == IF t1 > HueUnit THEN t1 - HueUnit ELSE t1
        sixth == 5 * PixDen
        ramp(u) == (510 * u + sixth) \div (2 * sixth)   \* round(255 * u / sixth)
    IN  IF 6 * t < HueUnit THEN ramp(t)
        ELSE IF 2 * t < HueUnit THEN 255
        ELSE IF 3 * t < 2 * HueUnit THEN ramp(4 * sixth - t)
        ELSE 0

hslToRgb(pixelDiff) ==
    LET h == 3 * 7 * (PixDen - pixelDiff)     \* (1 - pixelDiff) * 0.7
    IN  <<HueToRgb(h + 10 * PixDen), HueToRgb(h), HueToRgb(h - 10 * PixDen)>>

\* lines 247-251: the four bytes written for a visible difference.
DiffPixelTranslucent(pixelDiff) ==
    LET hsl == hslToRgb(pixelDiff)
    IN  <<hsl[1], hsl[2], hsl[3], Min(255, 100 + (1550 * pixelDiff) \div PixDen)>>

DiffPixel(pixelDiff) ==
    LET hsl == hslToRgb(pixelDiff)
    IN  <<hsl[1], hsl[2], hsl[3], 255>>

\* line 159: diffCtx.createImageData(width, height): a transparent-black
\* buffer; the canvas API raises IndexSizeError when either side is 0.
RECURSIVE Zeros(_)
Zeros(n) == IF n = 0 THEN <<>> ELSE <<0>> \o Zeros(n - 1)

createImageData(width, height) ==
    IF width = 0 \/ height = 0
    THEN [ok |-> FALSE, data |-> <<>>]
    ELSE [ok |-> TRUE, data |-> Zeros(width * height * 4)]

\* lines 284-289: the similarity score as num/den.
ScoreUnclamped(totalDiff, contentPixels) ==
    IF contentPixels = 0
    THEN [num |-> 0, den |-> 1]
    ELSE [num |-> 100 * (PixDen - totalDiff) * contentPixels,
          den |-> PixDen * contentPixels]

ScoreOfDifference(totalDiff, contentPixels) ==
    IF contentPixels = 0
    THEN [num |-> 0, den |-> 1]
    ELSE LET den == PixDen * contentPixels
         IN  [num |-> Max(0, Min(100 * den, 100 * totalDiff)), den |-> den]

Score(totalDiff, contentPixels) ==
    IF contentPixels = 0
    THEN [num |-> 0, den |-> 1]
    ELSE LET den == PixDen * contentPixels
             raw == 100 * (den - totalDiff)     \* (1 - avgDiff) * 100, over den
         IN  [num |-> Max(0, Min(100 * den, raw)), den |-> den]

\* lines 164-276: the y/x loops, cell k = y * width + x, with the locals
\* totalDiff, contentPixels and diffImageData.data carried in st.
RECURSIVE PixelLoop(_, _, _, _, _, _)
PixelLoop(a, b, width, height, k, st) ==
    IF k >= width * height THEN st
    ELSE
        LET x == k % width
            y == k \div width
            i == (y * width + x) * 4
            pixelDiff == PixelDiff(GetPixel(a, x, y), GetPixel(b, x, y))
            px == DiffPixel(pixelDiff)
            data == IF Skips(pixelDiff) THEN st.data
                    ELSE [st.data EXCEPT ![i + 1] = px[1], ![i + 2] = px[2],
                                         ![i + 3] = px[3], ![i + 4] = px[4]]
        IN  PixelLoop(a, b, width, height, k + 1,
                      [totalDiff |-> AddDiff(st.totalDiff, pixelDiff),
                       contentPixels |-> st.contentPixels + 1,
                       data |-> data])

\* lines 280-291: the returned score and diff canvas, with the locals
\* totalDiff and contentPixels kept for inspection.
Return(st, width, height) ==
    [status |-> "ok",
     score |-> Score(st.totalDiff, st.contentPixels),
     width |-> width, height |-> height, data |-> st.data,
     totalDiff |-> st.totalDiff, contentPixels |-> st.contentPixels]

\* lines 146-292.  status "threw" is the exception out of createImageData.
compareImages(a, b) ==
    LET width == Max(a.width, b.width)
        height == Max(a.height, b.height)
        diffImageData == createImageData(width, height)
    IN  IF ~diffImageData.ok
        THEN [status |-> "threw"]
        ELSE Return(PixelLoop(a, b, width, height, 0,
                              [totalDiff |-> 0, contentPixels |-> 0,
                               data |-> diffImageData.data]),
                    width, height)

\* ------------------------------------------------------ kernel state machine
KInit ==
    /\ img1Data \in Images
    /\ img2Data \in Images
    /\ result = NoResult
    /\ swapped = NoResult
    /\ moreData = <<>>
    /\ moreResult = NoResult

\* compareImages(contestantData, targetData)
Compare ==
    /\ result = NoResult
    /\ result' = compareImages(img1Data, img2Data)
    /\ UNCHANGED <<img1Data, img2Data, swapped, moreData, moreResult>>
    /\ UNCHANGED uvars

\* the same call with the arguments exchanged
CompareSwapped ==
    /\ result # NoResult
    /\ swapped = NoResult
    /\ moreData = <<>>
    /\ swapped' = compareImages(img2Data, img1Data)
    /\ UNCHANGED <<img1Data, img2Data, result, moreData, moreResult>>
    /\ UNCHANGED uvars

\* img with channel c of the pixel at (x, y) set to v
SetChannel(img, x, y, c, v) ==
    [img EXCEPT !.data[(y * img.width + x) * 4 + c] = v]

\* the call on a pair that differs from (img1Data, img2Data) in one channel of
\* one pixel of the second image, moved further from the first image's value
CompareMore ==
    /\ result # NoResult
    /\ moreData = <<>>
    /\ \E x \in 0..(img2Data.width - 1), y \in 0..(img2Data.height - 1),
          c \in 1..4, v \in ChannelValues :
          LET other == GetPixel(img1Data, x, y)[c]
              cur == GetPixel(img2Data, x, y)[c]
              more == SetChannel(img2Data, x, y, c, v)
          IN  /\ Abs(v - other) > Abs(cur - other)
              /\ moreData' = <<img1Data, more, x, y, c>>
              /\ moreResult' = compareImages(img1Data, more)
    /\ UNCHANGED <<img1Data, img2Data, result, swapped>>
    /\ UNCHANGED uvars

KNext == Compare \/ CompareSwapped \/ CompareMore

\* ------------------------------------------------------------ compare()
NoDisplay ==
    [shown |-> FALSE, contestant |-> ImageData(0, 0, <<>>),
     target |-> ImageData(0, 0, <<>>), diff |-> <<>>,
     pixel |-> [tenths |-> 0, tier |-> "none"],
     ssim |-> [tenths |-> 0, tier |-> "none"]]

UInit ==
    /\ isComparing = FALSE
    /\ inflight = <<>>
    /\ dangling = 0
    /\ display = NoDisplay
    /\ fired = 0
    /\ started = 0
    /\ failures = 0
    /\ timeoutDone = FALSE

\* What captureElement (lines 106-110) can resolve to: the rasterised element.
Captures ==
    { ImageData(0, 0, <<>>),
      ImageData(1, 1, <<255, 255, 255, 255>>),
      ImageData(2, 1, <<255, 255, 255, 255, 249, 255, 255, 255>>) }

\* calculateSSIM (lines 307-360) rests on ssim.js: any of these percentages,
\* or an exception out of the library.
SsimThrows == -1

SsimOutcomes == {SsimThrows, 50, 100}

\* lines 125-133: ctx.getImageData(0, 0, canvas.width, canvas.height) raises
\* IndexSizeError on a canvas with a zero side.
getImageDataThrows(img) == img.width = 0 \/ img.height = 0

\* lines 294-305: the text (in tenths of a percent, toFixed(1)) and the tier.
updateScoreDisplay(score) ==
    LET tenths == (10 * score.num + score.den \div 2) \div score.den
    IN  [tenths |-> tenths,
         tier |-> IF score.num >= 80 * score.den THEN "high"
                  ELSE IF score.num >= 50 * score.den THEN "medium"
                  ELSE "low"]

\* line 370: if (isComparing) return;
GuardOff(flag) == FALSE

Guard(flag) == flag

\* lines 417-419: finally { isComparing = false }, whatever the outcome.
ReleaseOnSuccessOnly(flag, ok) == IF ok THEN FALSE ELSE flag

Release(flag, ok) == FALSE

\* A captureElement promise: pending, or resolved with the image.
Pending == [state |-> "pending", img |-> ImageData(0, 0, <<>>)]
Resolved(img) == [state |-> "resolved", img |-> img]

\* lines 368-378: one call of compare(), up to its await.
compare ==
    /\ fired < MaxTriggers
    /\ fired' = fired + 1
    /\ IF Guard(isComparing)
       THEN UNCHANGED <<isComparing, inflight, started>>
       ELSE /\ isComparing' = TRUE
            /\ inflight' = Append(inflight, <<Pending, Pending>>)
            /\ started' = started + 1
    /\ UNCHANGED <<dangling, display, failures>>
    /\ UNCHANGED kvars

\* line 423: compareBtn click
Click == compare /\ UNCHANGED timeoutDone

\* line 426: setInterval(compare, 400)
IntervalTick == compare /\ UNCHANGED timeoutDone

\* line 429: setTimeout(compare, 500), once
InitialTimeout ==
    /\ ~timeoutDone
    /\ timeoutDone' = TRUE
    /\ compare

Remove(seq, p) == [k \in 1..(Len(seq) - 1) |-> IF k < p THEN seq[k] ELSE seq[k + 1]]

\* lines 380-414, run in one turn once Promise.all has resolved: either an
\* exception before the first UI update, or the new display.
SyncPart(contestantImg, targetImg, ssimScore) ==
    IF getImageDataThrows(contestantImg) \/ getImageDataThrows(targetImg)
    THEN [ok |-> FALSE, display |-> display]
    ELSE LET r == compareImages(contestantImg, targetImg)
         IN  IF r.status # "ok" \/ ssimScore = SsimThrows
             THEN [ok |-> FALSE, display |-> display]
             ELSE [ok |-> TRUE,
                   display |-> [shown |-> TRUE,
                                contestant |-> contestantImg,
                                target |-> targetImg,
                                diff |-> r.data,
                                pixel |-> updateScoreDisplay(r.score),
                                ssim |-> updateScoreDisplay([num |-> ssimScore, den |-> 1])]]

\* One captureElement promise of call p resolves.  When it is the second,
\* Promise.all resolves and the call runs to its end (lines 380-419).
CaptureResolves ==
    \E p \in 1..Len(inflight), c \in 1..2, img \in Captures, ssimScore \in SsimOutcomes :
        /\ inflight[p][c] = Pending
        /\ LET caps == [inflight[p] EXCEPT ![c] = Resolved(img)]
           IN  IF caps[3 - c] = Pending
               THEN /\ ssimScore = SsimThrows      \* not used by this step
                    /\ inflight' = [inflight EXCEPT ![p] = caps]
                    /\ UNCHANGED <<isComparing, display, failures>>
               ELSE LET out == SyncPart(caps[1].img, caps[2].img, ssimScore)
                    IN  /\ inflight' = Remove(inflight, p)
                        /\ display' = out.display
                        /\ failures' = IF out.ok THEN failures ELSE failures + 1
                        /\ isComparing' = Release(isComparing, out.ok)
        /\ UNCHANGED <<dangling, fired, started, timeoutDone>>
        /\ UNCHANGED kvars

\* One captureElement promise of call p rejects: Promise.all rejects at once,
\* the call goes through catch and finally (lines 415-419), and the other
\* capture, if still pending, is left running.
CaptureRejects ==
    \E p \in 1..Len(inflight), c \in 1..2 :
        /\ inflight[p][c] = Pending
        /\ inflight' = Remove(inflight, p)
        /\ dangling' = IF inflight[p][3 - c] = Pending THEN dangling + 1 ELSE dangling
        /\ isComparing' = Release(isComparing, FALSE)
        /\ failures' = failures + 1
        /\ UNCHANGED <<display, fired, started, timeoutDone>>
        /\ UNCHANGED kvars

\* A capture left behind by a rejected Promise.all settles; nobody listens.
DanglingSettles ==
    /\ dangling > 0
    /\ dangling' = dangling - 1
    /\ UNCHANGED <<isComparing, inflight, display, fired, started, failures, timeoutDone>>
    /\ UNCHANGED kvars

CaptureSettles == CaptureResolves \/ CaptureRejects

UNext == Click \/ IntervalTick \/ InitialTimeout \/ CaptureResolves
            \/ CaptureRejects \/ DanglingSettles

\* ------------------------------------------------------------ specifications
\* The kernel on every pair of input buffers.
Init == KInit /\ UInit

Spec == Init /\ [][KNext]_vars

KIdle ==
    /\ img1Data = ImageData(0, 0, <<>>)
    /\ img2Data = ImageData(0, 0, <<>>)
    /\ result = NoResult
    /\ swapped = NoResult
    /\ moreData = <<>>
    /\ moreResult = NoResult

\* The page: triggers and capture settlements in any order.
InitUI == KIdle /\ UInit

SpecUI == InitUI /\ [][UNext]_vars

\* The same, with every pending capture promise settling eventually.
FairSpecUI == SpecUI /\ WF_vars(CaptureSettles)

\* ------------------------------------------------------------------ claims
GridW == Max(img1Data.width, img2Data.width)
GridH == Max(img1Data.height, img2Data.height)
Cells == (0..(GridW - 1)) \X (0..(GridH - 1))

\* pixelDiff of grid cell c of the pair (img1Data, img2Data), over PixDen
CellDiff(c) == PixelDiff(GetPixel(img1Data, c[1], c[2]), GetPixel(img2Data, c[1], c[2]))

\* the four bytes of cell c in a diff image of the grid's width
CellBytes(data, c) ==
    LET i == (c[2] * GridW + c[1]) * 4
    IN  <<data[i + 1], data[i + 2], data[i + 3], data[i + 4]>>

IsFull(score) == score.num = 100 * score.den

\* C1: comparing a buffer with an exact copy of itself returns score exactly
\* 100 and a diff image whose every pixel has alpha 0.
C1_Identity ==
    (result.status = "ok" /\ img1Data = img2Data) =>
        /\ IsFull(result.score)
        /\ \A c \in Cells : CellBytes(result.data, c)[4] = 0

C1_Witness ==
    /\ result.status = "ok"
    /\ img1Data = img2Data
    /\ img1Data.width = 2
    /\ img1Data.data[2] # img1Data.data[5]
    /\ IsFull(result.score)

RECURSIVE SumFloored(_, _)
SumFloored(cells, floorThousandths) ==
    IF cells = {} THEN 0
    ELSE LET c == CHOOSE c \in cells : TRUE
             d == CellDiff(c)
         IN  (IF 1000 * d < floorThousandths * PixDen THEN 0 ELSE d)
                 + SumFloored(cells \ {c}, floorThousandths)

Source(img, c) ==
    IF c[1] < img.width /\ c[2] < img.height
    THEN SubSeq(img.data, (c[2] * img.width + c[1]) * 4 + 1,
                (c[2] * img.width + c[1]) * 4 + 4)
    ELSE <<0, 0, 0, 0>>

Drawn(d) == IF 100 * d < PixDen THEN <<0, 0, 0, 0>> ELSE DiffPixel(d)

C4_Symmetry ==
    (result.status = "ok" /\ swapped # NoResult) =>
        /\ swapped.status = "ok"
        /\ swapped.score = result.score

C4_Witness ==
    /\ result.status = "ok"
    /\ swapped.status = "ok"
    /\ img1Data.width # img2Data.width
    /\ img1Data.height # img2Data.height
    /\ result.score.num > 0
    /\ ~IsFull(result.score)

\* C5: increasing one channel's absolute difference at one pixel, all else
\* fixed, never increases the score.
C5_Monotone ==
    (result.status = "ok" /\ moreResult # NoResult) =>
        /\ moreResult.status = "ok"
        /\ moreResult.score.den = result.score.den
        /\ moreResult.score.num <= result.score.num

C5_Witness ==
    /\ result.status = "ok"
    /\ moreResult.status = "ok"
    /\ moreResult.score.num < result.score.num
    /\ moreResult.score.num > 0

\* C6: every returned score lies in [0, 100].
C6_Bounded ==
    \A r \in {result, swapped, moreResult} :
        r.status = "ok" =>
            /\ r.score.den > 0
            /\ 0 <= r.score.num
            /\ r.score.num <= 100 * r.score.den

C6_Witness ==
    /\ result.status = "ok"
    /\ result.score.num = 0
    /\ result.contentPixels = 2
    /\ result.totalDiff = 2 * PixDen

\* C7: when the comparison grid is empty compareImages returns score 0 as a
\* normal result, without an error.
C7_ZeroSize ==
    (result # NoResult /\ GridW * GridH = 0) =>
        /\ result.status = "ok"
        /\ result.score.num = 0

\* C8: a diff pixel is transparent (alpha 0) exactly when pixelDiff < 0.01;
\* otherwise it has alpha 255 and the colour hslToRgb((1 - pixelDiff) * 0.7,
\* 1, 0.5); no diff pixel has another alpha.
C8_Visualization ==
    result.status = "ok" =>
        \A c \in Cells :
            LET px == CellBytes(result.data, c)
                hsl == hslToRgb(CellDiff(c))
            IN  /\ px[4] \in {0, 255}
                /\ px[4] = 0 <=> 100 * CellDiff(c) < PixDen
                /\ px[4] = 255 => (px[1] = hsl[1] /\ px[2] = hsl[2] /\ px[3] = hsl[3])

C8_Witness ==
    /\ result.status = "ok"
    /\ \E c \in Cells :
          /\ 1000 * CellDiff(c) >= 5 * PixDen
          /\ 100 * CellDiff(c) < PixDen
          /\ CellBytes(result.data, c)[4] = 0
    /\ \E c \in Cells :
          /\ 100 * CellDiff(c) >= PixDen
          /\ CellDiff(c) < PixDen
          /\ CellBytes(result.data, c)[4] = 255

\* C9: at most one comparison pass is in progress at any time; a trigger
\* that fires while isComparing is true starts nothing and changes nothing,
\* and no pass starts except on a trigger that finds isComparing false.
C9_Guard ==
    /\ [](Len(inflight) <= 1)
    /\ [][(fired' = fired + 1 /\ isComparing) =>
              UNCHANGED <<isComparing, inflight, dangling, display, started, failures>>]_vars
    /\ [][started' # started =>
              (fired' = fired + 1 /\ ~isComparing /\ started' = started + 1)]_vars

C9_Witness ==
    /\ fired = 3
    /\ started = 2
    /\ isComparing
    /\ Len(inflight) = 1
    /\ dangling = 1

\* C10: isComparing is set exactly while a pass is in progress and is reset
\* in the step that ends the pass, normally or by an exception; a failed
\* pass leaves the display unchanged; a trigger that arrives when no pass is
\* in progress starts one; and once set the guard is eventually reset.
C10_Release ==
    /\ [](isComparing <=> inflight # <<>>)
    /\ [][Len(inflight') < Len(inflight) => ~isComparing']_vars
    /\ [][failures' # failures => display' = display]_vars
    /\ [][(fired' = fired + 1 /\ inflight = <<>>) => started' = started + 1]_vars
    /\ (isComparing ~> ~isComparing)

C10_Witness ==
    /\ failures >= 1
    /\ display.shown
    /\ started = 3
    /\ isComparing

====
